---------------------------- MODULE Spec2Model ----------------------------
(***************************************************************************)
(* Fee reconciliation scripts of check-commission-Treasury-BRS.            *)
(*                                                                         *)
(* The repository holds two entry points with the same functions:          *)
(*   src/run_calc_commission_BRS.py   (entry = "commission")               *)
(*   src/run_calc_comission_BRS.py    (entry = "comission")                *)
(* Both are modelled; `entry' says which one runs.                         *)
(*                                                                         *)
(* Text is a sequence of one-character tokens, so that strip, upper and    *)
(* replace are computed.  A Python float is an exact decimal n * 10^-e or  *)
(* NaN; round() rounds a decimal tie to the even neighbour.  The purchase  *)
(* marker of the sources is Cyrillic; it is written "POKUPKA" here.        *)
(***************************************************************************)
EXTENDS Integers, Sequences, FiniteSets, TLC

VARIABLES
    entry,             \* which script runs
    listdir,           \* os.listdir(current_dir): directory entries, in OS order
    setup_xlsx,        \* what pd.read_excel('setup.xlsx') would give
    pc,                \* position in main()
    commission_rates,  \* main: commission_rates
    processed_files,   \* main: processed_files
    idx,               \* index of the next file of the for loop
    results_df,        \* main: results_df
    disk,              \* files written by the run: path -> content
    results_xlsx,      \* state of results.xlsx
    history            \* what each process_file call did (observation only)

vars == <<entry, listdir, setup_xlsx, pc, commission_rates, processed_files,
          idx, results_df, disk, results_xlsx, history>>

-----------------------------------------------------------------------------
(* Bounds of the explored inputs *)

MaxFiles == 2
MaxRows == 1
MaxSetupRows == 1

-----------------------------------------------------------------------------
(* Text *)

Lower == <<"a","b","c","d","e","f","g","h","i","j","k","l","m",
           "n","o","p","q","r","s","t","u","v","w","x","y","z">>
Upper == <<"A","B","C","D","E","F","G","H","I","J","K","L","M",
           "N","O","P","Q","R","S","T","U","V","W","X","Y","Z">>

\* Characters str.strip() and float() treat as white space (NBSP included).
Whitespace == {" ", "NBSP"}

upper_char(c) ==
    IF \E k \in 1..26 : Lower[k] = c
    THEN Upper[CHOOSE k \in 1..26 : Lower[k] = c]
    ELSE c

upper(s) == [k \in 1..Len(s) |-> upper_char(s[k])]

RECURSIVE lstrip(_)
lstrip(s) ==
    IF s # <<>> /\ Head(s) \in Whitespace THEN lstrip(Tail(s)) ELSE s

RECURSIVE rstrip(_)
rstrip(s) ==
    IF s # <<>> /\ s[Len(s)] \in Whitespace
    THEN rstrip(SubSeq(s, 1, Len(s) - 1))
    ELSE s

strip(s) == rstrip(lstrip(s))

\* s.replace(old, new) for a one-character old; new = "" deletes.
RECURSIVE replace(_, _, _)
replace(s, old, new) ==
    IF s = <<>> THEN <<>>
    ELSE (IF Head(s) = old
          THEN (IF new = "" THEN <<>> ELSE <<new>>)
          ELSE <<Head(s)>>) \o replace(Tail(s), old, new)

-----------------------------------------------------------------------------
(* Floats *)

RECURSIVE Pow10(_)
Pow10(k) == IF k = 0 THEN 1 ELSE 10 * Pow10(k - 1)

RECURSIVE Norm(_, _)
Norm(n, e) ==
    IF e > 0 /\ n % 10 = 0 THEN Norm(n \div 10, e - 1)
    ELSE [nan |-> FALSE, n |-> n, e |-> e]

NaN == [nan |-> TRUE, n |-> 0, e |-> 0]
Dec(n, e) == Norm(n, e)
Zero == Dec(0, 0)

Max(a, b) == IF a >= b THEN a ELSE b

Mul(a, b) ==
    IF a.nan \/ b.nan THEN NaN ELSE Norm(a.n * b.n, a.e + b.e)

Sub(a, b) ==
    IF a.nan \/ b.nan THEN NaN
    ELSE LET e == Max(a.e, b.e)
         IN  Norm(a.n * Pow10(e - a.e) - b.n * Pow10(e - b.e), e)

\* The multiple of q nearest to x, a tie going to the even multiple.
RoundHalfEven(x, q) ==
    LET f == x \div q
        r == x - f * q
    IN  IF 2 * r < q THEN f
        ELSE IF 2 * r > q THEN f + 1
        ELSE IF f % 2 = 0 THEN f ELSE f + 1

\* round(x, nd) of Python and Series.round(nd) of pandas.
round(x, nd) ==
    IF x.nan THEN NaN
    ELSE IF x.e <= nd THEN x
    ELSE Norm(RoundHalfEven(x.n, Pow10(x.e - nd)), nd)

\* x != 0 of Python: NaN != 0 is True.
NonZero(x) == x.nan \/ x.n # 0

DigitChars == {"0","1","2","3","4","5","6","7","8","9"}

DigitVal(c) ==
    CASE c = "0" -> 0 [] c = "1" -> 1 [] c = "2" -> 2 [] c = "3" -> 3
      [] c = "4" -> 4 [] c = "5" -> 5 [] c = "6" -> 6 [] c = "7" -> 7
      [] c = "8" -> 8 [] c = "9" -> 9

RECURSIVE DigitsValue(_)
DigitsValue(s) ==
    IF s = <<>> THEN 0
    ELSE 10 * DigitsValue(SubSeq(s, 1, Len(s) - 1)) + DigitVal(s[Len(s)])

\* float(text): surrounding white space, an optional sign, digits with at
\* most one point.  (Exponents, "inf", "nan" and "_" are outside the
\* explored inputs.)  raised = TRUE stands for ValueError.
float_digits(ip, fp, neg) ==
    IF /\ \A k \in 1..Len(ip) : ip[k] \in DigitChars
       /\ \A k \in 1..Len(fp) : fp[k] \in DigitChars
       /\ Len(ip) + Len(fp) >= 1
    THEN [raised |-> FALSE,
          f |-> Norm((IF neg THEN -1 ELSE 1) * DigitsValue(ip \o fp), Len(fp))]
    ELSE [raised |-> TRUE, f |-> Zero]

float_point(body, neg, pts) ==
    IF pts = {} THEN float_digits(body, <<>>, neg)
    ELSE IF Cardinality(pts) > 1 THEN [raised |-> TRUE, f |-> Zero]
    ELSE LET p == CHOOSE k \in pts : TRUE
         IN  float_digits(SubSeq(body, 1, p - 1),
                          SubSeq(body, p + 1, Len(body)), neg)

float_body(body, neg) ==
    float_point(body, neg, {k \in 1..Len(body) : body[k] = "."})

float_sign(t) ==
    IF t # <<>> /\ Head(t) \in {"-", "+"}
    THEN float_body(Tail(t), Head(t) = "-")
    ELSE float_body(t, FALSE)

float_str(s) == float_sign(strip(s))

-----------------------------------------------------------------------------
(* Cells of a table: a float (an empty cell is NaN) or a text. *)

FloatCell(f) == [k |-> "float", f |-> f, s |-> <<>>]
StrCell(s) == [k |-> "str", f |-> Zero, s |-> s]

\* str(value)
str(cell) ==
    IF cell.k = "str" THEN cell.s
    ELSE IF cell.f.nan THEN <<"n", "a", "n">>
    ELSE <<"?">>

\* float(value)
float(cell) ==
    IF cell.k = "str" THEN float_str(cell.s)
    ELSE [raised |-> FALSE, f |-> cell.f]

\* convert_amount(value) of run_calc_commission_BRS.py
convert_amount(value) ==
    IF value.k = "str"
    THEN float_str(replace(replace(value.s, " ", ""), ",", "."))
    ELSE [raised |-> FALSE, f |-> value.f]


-----------------------------------------------------------------------------
(* Rate table: a dict from key cells to value cells. *)

MIR == <<"M", "I", "R">>
MC == <<"M", "C">>
VISA == <<"V", "I", "S", "A">>
CUP == <<"C", "U", "P">>
AMEX == <<"A", "M", "E", "X">>
DEFAULT == <<"D", "E", "F", "A", "U", "L", "T">>

EmptyDict == [k \in {} |-> FloatCell(Zero)]

\* d[key] = value
setitem(d, key, value) ==
    [k \in DOMAIN d \cup {key} |-> IF k = key THEN value ELSE d[k]]

\* d.setdefault(key, value)
setdefault(d, key, value) ==
    IF key \in DOMAIN d THEN d ELSE setitem(d, key, value)

\* default_rates of run_calc_commission_BRS.py
default_rates ==
    LET d1 == setitem(EmptyDict, StrCell(MIR), FloatCell(Dec(142, 4)))
        d2 == setitem(d1, StrCell(MC), FloatCell(Dec(2, 2)))
        d3 == setitem(d2, StrCell(VISA), FloatCell(Dec(165, 4)))
        d4 == setitem(d3, StrCell(CUP), FloatCell(Dec(165, 4)))
        d5 == setitem(d4, StrCell(AMEX), FloatCell(Dec(3, 2)))
    IN  setitem(d5, StrCell(DEFAULT), FloatCell(Dec(0, 2)))

\* The dict the except branch of run_calc_comission_BRS.py returns.
comission_fallback_rates ==
    LET d1 == setitem(EmptyDict, StrCell(MIR), FloatCell(Dec(142, 4)))
        d2 == setitem(d1, StrCell(MC), FloatCell(Dec(200, 4)))
        d3 == setitem(d2, StrCell(VISA), FloatCell(Dec(165, 4)))
        d4 == setitem(d3, StrCell(CUP), FloatCell(Dec(165, 4)))
    IN  setitem(d4, StrCell(DEFAULT), FloatCell(Dec(0, 2)))

\* The for loop over df.iterrows() of run_calc_commission_BRS.py: the dict
\* built from the rows, or raised when float() fails on a rate.
RECURSIVE fill_rates(_, _)
RECURSIVE fill_row(_, _, _)
fill_row(rows, d, rate) ==
    IF rate.raised THEN [raised |-> TRUE, d |-> d]
    ELSE fill_rates(Tail(rows),
                    setitem(d,
                            StrCell(upper(strip(str(Head(rows).card_type)))),
                            FloatCell(rate.f)))

fill_rates(rows, d) ==
    IF rows = <<>> THEN [raised |-> FALSE, d |-> d]
    ELSE fill_row(rows, d, float(Head(rows).rate))

\* The end of the try block: a failed loop gives default_rates, else the
\* dict with DEFAULT set when it has none.
loaded_rates(r) ==
    IF r.raised THEN default_rates
    ELSE setdefault(r.d, StrCell(DEFAULT), default_rates[StrCell(DEFAULT)])

\* load_commission_rates() of run_calc_commission_BRS.py.  setup is
\* [exists, readable, columns, rows]: whether setup.xlsx is in the working
\* directory, whether pd.read_excel parses it, whether both headers are
\* there, and its rows.
load_commission_rates(setup) ==
    IF ~setup.exists THEN default_rates
    ELSE IF ~setup.readable THEN default_rates
    ELSE IF setup.rows = <<>> THEN default_rates
    ELSE IF ~setup.columns THEN default_rates
    ELSE loaded_rates(fill_rates(setup.rows, EmptyDict))

\* The for loop of run_calc_comission_BRS.py: cells are stored as read.
RECURSIVE comission_fill_rates(_, _)
comission_fill_rates(rows, d) ==
    IF rows = <<>> THEN d
    ELSE comission_fill_rates(Tail(rows),
                              setitem(d, Head(rows).card_type, Head(rows).rate))

\* load_commission_rates() of run_calc_comission_BRS.py
comission_load_commission_rates(setup) ==
    IF ~setup.exists THEN comission_fallback_rates
    ELSE IF ~setup.readable THEN comission_fallback_rates
    ELSE IF setup.rows = <<>> THEN comission_fallback_rates
    ELSE IF ~setup.columns THEN comission_fallback_rates
    ELSE setdefault(comission_fill_rates(setup.rows, EmptyDict),
                    StrCell(DEFAULT), FloatCell(Dec(1, 2)))

\* commission_rates.get(card_type, commission_rates['DEFAULT']); the default
\* is evaluated first, and raises KeyError when the dict has no DEFAULT.
get_rate(rates, card_type) ==
    IF StrCell(DEFAULT) \notin DOMAIN rates
    THEN [raised |-> TRUE, v |-> FloatCell(Zero)]
    ELSE [raised |-> FALSE,
          v |-> IF card_type \in DOMAIN rates THEN rates[card_type]
                ELSE rates[StrCell(DEFAULT)]]

-----------------------------------------------------------------------------
(* Files.  A name is root + "_processed" * nproc + "." + ext.  A directory *)
(* entry is [name, file]; file says what each way of reading it gives:     *)
(* utf8, cp1251, detected and excel are [st, df] with st "ok",             *)
(* "UnicodeDecodeError" or "Error" (any other exception); guess is the     *)
(* encoding chardet names for the first 10000 bytes; out_ok says whether   *)
(* the annotated output of the file can be opened for writing.  A table df *)
(* is [columns, rows].                                                     *)

Name(root, nproc, ext) == [root |-> root, nproc |-> nproc, ext |-> ext]

\* f.endswith('.' + ext)
endswith_ext(f, ext) == f.ext = ext

\* f.endswith('_processed.' + ext)
endswith_processed(f, ext) == f.nproc >= 1 /\ f.ext = ext

\* f.startswith('results')
startswith_results(f) == f.root \in {"results", "results_2024"}

SetupName == Name("setup", 0, "xlsx")
ResultsName == Name("results", 0, "xlsx")

Purchase == "POKUPKA"

required_columns == {"TYPE", "AMOUNT", "COMMISSION", "PMT_SYSTEM_CODE"}

\* detect_encoding(file_path)
detect_encoding(file_path) == file_path.file.guess

\* A reader that goes on to the next encoding after any exception, not
\* only after UnicodeDecodeError, for comparison.
read_file_any_exception(file_path) ==
    LET f == file_path.file
        failed(tried) == [raised |-> TRUE, df |-> f.utf8.df, tried |-> tried]
        done(o, tried) == [raised |-> FALSE, df |-> o.df, tried |-> tried]
    IN  IF file_path.name.ext \in {"csv", "dsv", "dsvp"}
        THEN IF f.utf8.st = "ok" THEN done(f.utf8, <<"utf-8">>)
             ELSE IF f.cp1251.st = "ok"
                  THEN done(f.cp1251, <<"utf-8", "windows-1251">>)
             ELSE IF f.detected.st = "ok"
                  THEN done(f.detected,
                            <<"utf-8", "windows-1251", f.guess>>)
             ELSE failed(<<"utf-8", "windows-1251", f.guess>>)
        ELSE IF f.excel.st = "ok" THEN done(f.excel, <<>>)
             ELSE failed(<<>>)

\* read_file_with_encoding(file_path): [raised, df, tried], tried being the
\* encodings handed to pd.read_csv, in order (empty for a spreadsheet).
\* Both scripts try the same readers in the same order and end in an
\* exception in the same cases.
read_file_with_encoding(file_path) ==
    LET f == file_path.file
        failed(tried) == [raised |-> TRUE, df |-> f.utf8.df, tried |-> tried]
        done(o, tried) == [raised |-> FALSE, df |-> o.df, tried |-> tried]
    IN  IF file_path.name.ext \in {"csv", "dsv", "dsvp"}
        THEN IF f.utf8.st = "ok" THEN done(f.utf8, <<"utf-8">>)
             ELSE IF f.utf8.st # "UnicodeDecodeError"
                  THEN failed(<<"utf-8">>)
             ELSE IF f.cp1251.st = "ok"
                  THEN done(f.cp1251, <<"utf-8", "windows-1251">>)
             ELSE IF f.cp1251.st # "UnicodeDecodeError"
                  THEN failed(<<"utf-8", "windows-1251">>)
             ELSE LET encoding == detect_encoding(file_path)
                      tried == <<"utf-8", "windows-1251", encoding>>
                  IN  IF f.detected.st = "ok" THEN done(f.detected, tried)
                      ELSE failed(tried)
        ELSE IF f.excel.st = "ok" THEN done(f.excel, <<>>)
             ELSE failed(<<>>)

-----------------------------------------------------------------------------
(* Fee computation *)

\* round(amount * rate, 2) inside the try block: any exception gives 0.0.
commission_of(amount, rate) ==
    IF amount.raised \/ rate.raised THEN Zero
    ELSE round(Mul(amount.f, rate.v.f), 2)

\* calculate_commission(row, commission_rates) of run_calc_commission_BRS.py
calculate_commission(row, rates) ==
    IF row.TYPE # Purchase THEN Zero
    ELSE commission_of(
             convert_amount(row.AMOUNT),
             get_rate(rates,
                      StrCell(upper(strip(str(row.PMT_SYSTEM_CODE))))))

\* round(amount * rate, 2) of run_calc_comission_BRS.py: a text amount or
\* rate makes amount * rate or round() raise TypeError.
comission_commission_of(amount, rate) ==
    IF rate.raised \/ amount.k = "str" \/ rate.v.k = "str"
    THEN [raised |-> TRUE, f |-> Zero]
    ELSE [raised |-> FALSE, f |-> round(Mul(amount.f, rate.v.f), 2)]

\* calculate_commission(row, commission_rates) of run_calc_comission_BRS.py:
\* the cells are used as read.
comission_calculate_commission(row, rates) ==
    IF row.TYPE # Purchase THEN [raised |-> FALSE, f |-> Zero]
    ELSE comission_commission_of(row.AMOUNT,
                                 get_rate(rates, row.PMT_SYSTEM_CODE))

\* A row with the two added columns: calc ("computed fee") and diff
\* ("difference F - U"), diff rounded to 2 places.
with_added(row, calc) ==
    [TYPE |-> row.TYPE, AMOUNT |-> row.AMOUNT, COMMISSION |-> row.COMMISSION,
     PMT_SYSTEM_CODE |-> row.PMT_SYSTEM_CODE,
     calc |-> calc,
     diff |-> round(IF row.TYPE = Purchase
                    THEN Sub(row.COMMISSION.f, calc)
                    ELSE Zero, 2)]

\* df[column].apply(convert_amount) for AMOUNT and COMMISSION: cells[k] holds
\* the two conversions of row k; one failure raises out of the apply.
converted(rows, cells) ==
    IF \E k \in 1..Len(rows) : cells[k].a.raised \/ cells[k].c.raised
    THEN [raised |-> TRUE, rows |-> <<>>]
    ELSE [raised |-> FALSE,
          rows |-> [k \in 1..Len(rows) |->
                      [rows[k] EXCEPT !.AMOUNT = FloatCell(cells[k].a.f),
                                      !.COMMISSION = FloatCell(cells[k].c.f)]]]

convert_columns(rows) ==
    converted(rows,
              [k \in 1..Len(rows) |->
                 [a |-> convert_amount(rows[k].AMOUNT),
                  c |-> convert_amount(rows[k].COMMISSION)]])

added_columns(conv, rates) ==
    IF conv.raised THEN conv
    ELSE [raised |-> FALSE,
          rows |-> [k \in 1..Len(conv.rows) |->
                      with_added(conv.rows[k],
                                 calculate_commission(conv.rows[k], rates))]]

\* Lines 115-124 of run_calc_commission_BRS.py: both numeric columns through
\* convert_amount, then the two added columns.
compute_columns(df, rates) == added_columns(convert_columns(df.rows), rates)

\* Lines 105-110 of run_calc_comission_BRS.py: no conversion; a text fee in
\* a purchase row makes the subtraction raise TypeError.
comission_added(rows, calcs) ==
    IF \E k \in 1..Len(rows) :
          \/ calcs[k].raised
          \/ (rows[k].TYPE = Purchase /\ rows[k].COMMISSION.k = "str")
    THEN [raised |-> TRUE, rows |-> <<>>]
    ELSE [raised |-> FALSE,
          rows |-> [k \in 1..Len(rows) |-> with_added(rows[k], calcs[k].f)]]

comission_compute_columns(df, rates) ==
    comission_added(df.rows,
                    [k \in 1..Len(df.rows) |->
                       comission_calculate_commission(df.rows[k], rates)])

-----------------------------------------------------------------------------
(* process_file *)

\* row[column] = value on a row given as a record
with_column(row, column, value) ==
    [c \in DOMAIN row \cup {column} |-> IF c = column THEN value ELSE row[c]]

\* os.path.splitext(os.path.basename(file_path))[0] + "_processed.xlsx"
new_path(file_path) ==
    Name(file_path.name.root, file_path.name.nproc + 1, "xlsx")

\* A filter that keeps the overcharged rows only, for comparison with
\* df[df[diff] != 0]: the report property tells the two apart.
overcharges_of(rows) ==
    SelectSeq(rows, LAMBDA r : ~r.diff.nan /\ r.diff.n > 0)

\* df[df[diff] != 0]
discrepancies_of(rows) == SelectSeq(rows, LAMBDA r : NonZero(r.diff))

\* The added columns, as each script computes them.
columns_of(e, df, rates) ==
    IF e = "commission" THEN compute_columns(df, rates)
    ELSE comission_compute_columns(df, rates)

\* What a call of process_file gives: the DataFrame returned and, for
\* observation, the step that raised ("ok" when none did), what the reader
\* gave (the encodings tried and the table), the table computed and whether
\* the annotated output was written.
Outcome(res, status, rd, rows, written) ==
    [results_df |-> res, status |-> status, tried |-> rd.tried,
     read |-> IF rd.raised THEN <<>> ELSE rd.df.rows,
     rows |-> rows, written |-> written]

\* pd.concat([results_df, discrepancies]) when discrepancies is not empty,
\* each row with the "file" column.
concat(results, file_path, discrepancies) ==
    IF discrepancies = <<>> THEN results
    ELSE results \o [k \in 1..Len(discrepancies) |->
                       with_column(discrepancies[k], "file", file_path.name)]

\* From the discrepancies on: results_df is rebound by the concat before
\* the output is written, so the except branch returns the rebound value
\* when the writer raises.
write_output(file_path, rebound, rd, cc) ==
    IF ~file_path.file.out_ok
    THEN Outcome(rebound, "write", rd, cc.rows, FALSE)
    ELSE Outcome(rebound, "ok", rd, cc.rows, TRUE)

after_columns(file_path, results, rd, cc) ==
    IF cc.raised THEN Outcome(results, "compute", rd, <<>>, FALSE)
    ELSE write_output(file_path,
                      concat(results, file_path, discrepancies_of(cc.rows)),
                      rd, cc)

\* A process_file whose failed read returns an empty DataFrame instead of
\* the one it was given, for comparison: the rows of earlier files are lost.
after_read_dropping(e, file_path, results, rates, rd) ==
    IF rd.raised THEN Outcome(<<>>, "read", rd, <<>>, FALSE)
    ELSE IF required_columns \ rd.df.columns # {}
    THEN Outcome(results, "columns", rd, <<>>, FALSE)
    ELSE after_columns(file_path, results, rd, columns_of(e, rd.df, rates))

after_read(e, file_path, results, rates, rd) ==
    IF rd.raised THEN Outcome(results, "read", rd, <<>>, FALSE)
    ELSE IF required_columns \ rd.df.columns # {}
    THEN Outcome(results, "columns", rd, <<>>, FALSE)
    ELSE after_columns(file_path, results, rd, columns_of(e, rd.df, rates))

\* process_file(file_path, results_df, commission_rates).  (The two scripts
\* differ in the added columns only.)
process_file(e, file_path, results, rates) ==
    after_read(e, file_path, results, rates,
               read_file_with_encoding(file_path))

-----------------------------------------------------------------------------
(* main *)

\* The filter of the list comprehension in main.
is_input(f) ==
    /\ \/ endswith_ext(f, "xlsx") \/ endswith_ext(f, "xls")
       \/ endswith_ext(f, "csv") \/ endswith_ext(f, "dsv")
       \/ endswith_ext(f, "dsvp")
    /\ ~startswith_results(f)
    /\ ~endswith_processed(f, "xlsx")
    /\ ~endswith_processed(f, "xls")
    /\ ~endswith_processed(f, "csv")
    /\ f # SetupName

\* commission_rates = load_commission_rates()
LoadRates ==
    /\ pc = "load"
    /\ commission_rates' =
         IF entry = "commission" THEN load_commission_rates(setup_xlsx)
         ELSE comission_load_commission_rates(setup_xlsx)
    /\ pc' = "listdir"
    /\ UNCHANGED <<entry, listdir, setup_xlsx, processed_files, idx,
                   results_df, disk, results_xlsx, history>>

\* processed_files = [...]; an empty list returns at once.
ListFiles ==
    /\ pc = "listdir"
    /\ processed_files' = SelectSeq(listdir, LAMBDA d : is_input(d.name))
    /\ pc' = IF processed_files' = <<>> THEN "return_nofiles" ELSE "for"
    /\ idx' = 1
    /\ UNCHANGED <<entry, listdir, setup_xlsx, commission_rates, results_df,
                   disk, results_xlsx, history>>

\* The effect of one call on the variables.
Returned(file_path, r) ==
    /\ results_df' = r.results_df
    /\ disk' = IF r.written
               THEN setitem(disk, new_path(file_path),
                            [rows |-> r.rows, source |-> file_path.name])
               ELSE disk
    /\ history' = Append(history,
           [file |-> file_path, given |-> results_df,
            returned |-> r.results_df, status |-> r.status,
            tried |-> r.tried, read |-> r.read, rows |-> r.rows,
            written |-> r.written])

\* One turn of the for loop: results_df = process_file(...)
ProcessFile ==
    /\ pc = "for"
    /\ idx <= Len(processed_files)
    /\ Returned(processed_files[idx],
                process_file(entry, processed_files[idx], results_df,
                             commission_rates))
    /\ idx' = idx + 1
    /\ UNCHANGED <<entry, listdir, setup_xlsx, pc, commission_rates,
                   processed_files, results_xlsx>>

Absent == [st |-> "absent", rows |-> <<>>]

\* After the loop: an existing results.xlsx is truncated to zero bytes, and
\* the report is written when results_df is not empty, each row with the
\* time column.
SaveResults ==
    /\ pc = "for"
    /\ idx > Len(processed_files)
    /\ LET truncated == IF results_xlsx.st # "absent"
                        THEN [st |-> "truncated", rows |-> <<>>]
                        ELSE results_xlsx
           timed == [k \in 1..Len(results_df) |->
                       with_column(results_df[k], "time", "now")]
       IN  IF results_df # <<>>
           THEN /\ results_df' = timed
                /\ results_xlsx' = [st |-> "written", rows |-> timed]
           ELSE /\ results_df' = results_df
                /\ results_xlsx' = truncated
    /\ pc' = "return"
    /\ UNCHANGED <<entry, listdir, setup_xlsx, commission_rates,
                   processed_files, idx, disk, history>>

Next == LoadRates \/ ListFiles \/ ProcessFile \/ SaveResults

-----------------------------------------------------------------------------
(* Explored inputs *)

Entries == {"commission", "comission"}

Num(n, e) == FloatCell(Dec(n, e))
Txt(s) == StrCell(s)
Row(t, a, c, p) ==
    [TYPE |-> t, AMOUNT |-> a, COMMISSION |-> c, PMT_SYSTEM_CODE |-> p]
Table(rows) == [columns |-> required_columns \cup {"DATE"}, rows |-> rows]

JCB == <<"J", "C", "B">>
Refund == "VOZVRAT"

\* Sequences over S of length 0..n, and those without a repeated name.
SeqsUpTo(S, n) == UNION {[1..k -> S] : k \in 0..n}
DistinctSeqs(S, n) ==
    {q \in SeqsUpTo(S, n) : \A a, b \in 1..Len(q) : a # b => q[a] # q[b]}

\* A file every reader reads as df.
ReadableAs(df, out_ok) ==
    [utf8 |-> [st |-> "ok", df |-> df],
     cp1251 |-> [st |-> "ok", df |-> df],
     detected |-> [st |-> "ok", df |-> df],
     excel |-> [st |-> "ok", df |-> df],
     guess |-> "utf-8", out_ok |-> out_ok]

rowEqual == Row(Purchase, Num(1000, 0), Num(142, 1), Txt(MIR))
rowOver == Row(Purchase, Num(1000, 0), Num(15, 0), Txt(MIR))
rowUnder == Row(Purchase, Num(1000, 0), Num(10, 0), Txt(VISA))
rowUnknown == Row(Purchase, Num(500, 0), Num(5, 0), Txt(JCB))
rowRefund == Row(Refund, Num(100, 0), Num(3, 0), Txt(MIR))
rowBadAmount == Row(Purchase, Txt(<<"a", "b", "c">>), Num(1, 0), Txt(MIR))

tableClean == Table(<<rowEqual, rowRefund>>)
tableDisc == Table(<<rowOver, rowRefund, rowUnknown>>)
tableUnder == Table(<<rowUnder>>)
tableBadCell == Table(<<rowOver, rowBadAmount>>)

Unreadable ==
    [utf8 |-> [st |-> "Error", df |-> tableDisc],
     cp1251 |-> [st |-> "ok", df |-> tableDisc],
     detected |-> [st |-> "ok", df |-> tableDisc],
     excel |-> [st |-> "Error", df |-> tableDisc],
     guess |-> "utf-8", out_ok |-> TRUE]

NoAmountColumn ==
    ReadableAs([columns |-> required_columns \ {"AMOUNT"},
                rows |-> tableDisc.rows], TRUE)

FileKinds ==
    {ReadableAs(tableClean, TRUE), ReadableAs(tableDisc, TRUE),
     ReadableAs(tableUnder, TRUE), ReadableAs(tableUnder, FALSE),
     ReadableAs(tableBadCell, TRUE), Unreadable, NoAmountColumn}

InputNames == {Name("a", 0, "csv"), Name("a", 0, "xlsx"), Name("b", 0, "csv")}

SetupMissing ==
    [exists |-> FALSE, readable |-> FALSE, columns |-> FALSE, rows |-> <<>>]
SetupRow(card_type, rate) == [card_type |-> card_type, rate |-> rate]
SetupSimple ==
    [exists |-> TRUE, readable |-> TRUE, columns |-> TRUE,
     rows |-> <<SetupRow(Txt(MIR), Num(1, 2))>>]

StaleReport == [st |-> "stale", rows |-> <<rowEqual>>]

DirEntry(name, file) == [name |-> name, file |-> file]

\* The state main starts in, for a script, a directory and a setup.xlsx.
Start(e, dir, setup) ==
    /\ entry = e
    /\ listdir = dir
    /\ setup_xlsx = setup
    /\ pc = "load"
    /\ commission_rates = EmptyDict
    /\ processed_files = <<>>
    /\ idx = 1
    /\ results_df = <<>>
    /\ disk = EmptyDict
    /\ results_xlsx = IF \E k \in 1..Len(dir) : dir[k].name = ResultsName
                      THEN StaleReport ELSE Absent
    /\ history = <<>>

\* Several input files, each of one of the kinds, with or without a
\* results.xlsx of an earlier run.
InitFiles ==
    \E e \in Entries, names \in DistinctSeqs(InputNames, MaxFiles),
       prior \in BOOLEAN :
      \E kinds \in [1..Len(names) -> FileKinds] :
        Start(e,
              (IF prior
               THEN <<DirEntry(ResultsName, ReadableAs(tableClean, TRUE))>>
               ELSE <<>>)
              \o [k \in 1..Len(names) |-> DirEntry(names[k], kinds[k])],
              SetupMissing)

DirNames ==
    {Name("a", 0, "xlsx"), Name("a", 0, "xls"), Name("a", 0, "csv"),
     Name("a", 0, "dsv"), Name("a", 0, "dsvp"), Name("a", 0, "txt"),
     Name("a", 1, "xlsx"), Name("a", 1, "xls"), Name("a", 1, "csv"),
     Name("a", 1, "dsv"), Name("results", 0, "xlsx"),
     Name("results_2024", 0, "csv"), Name("setup", 0, "xlsx"),
     Name("setup", 0, "csv")}

\* Directories with names of every shape the filter of main tells apart.
InitDir ==
    \E e \in Entries, names \in DistinctSeqs(DirNames, MaxFiles) :
      Start(e,
            [k \in 1..Len(names) |->
               DirEntry(names[k], ReadableAs(tableDisc, TRUE))],
            IF \E k \in 1..Len(names) : names[k] = SetupName
            THEN SetupSimple ELSE SetupMissing)

TypeCells == {Purchase, Refund, "pokupka"}

AmountCells ==
    {Num(1000, 0),
     Txt(<<"1", " ", "2", "3", "4", ",", "5", "6">>),
     Txt(<<"1", "NBSP", "2", "3", "4", ",", "5", "6">>),
     FloatCell(NaN)}

FeeCells ==
    {Num(142, 1), Num(15, 0), Num(14204, 3),
     Txt(<<"2", "0", ",", "3", "7">>), Txt(<<"n", "/", "a">>)}

CodeCells ==
    {Txt(<<"m", "i", "r">>), Txt(<<" ", "V", "i", "s", "a", "NBSP">>),
     Txt(JCB), FloatCell(NaN)}

WideRows ==
    {Row(t, a, c, p) : t \in TypeCells, a \in AmountCells,
                       c \in FeeCells, p \in CodeCells}

\* The rows that follow the first one in a table of several rows.
TailRows == {rowEqual, rowUnder, rowRefund, rowBadAmount}

\* One file whose first row ranges over every combination of cells.
InitRows ==
    \E e \in Entries, n \in 1..MaxRows :
      \E first \in WideRows, rest \in [1..(n - 1) -> TailRows] :
        Start(e, <<DirEntry(Name("a", 0, "csv"),
                            ReadableAs(Table(<<first>> \o rest), TRUE))>>,
              SetupMissing)

SetupCodeCells ==
    {Txt(MIR), Txt(<<" ", "m", "i", "r">>), Txt(<<"d", "e", "f", "a", "u", "l", "t">>),
     Txt(JCB)}

SetupRateCells ==
    {Num(1, 2), Txt(<<"0", ".", "0", "2">>), Txt(<<"0", ",", "0", "2">>),
     Txt(<<"a", "b", "c">>), FloatCell(NaN)}

SetupRows ==
    {SetupRow(c, r) : c \in SetupCodeCells, r \in SetupRateCells}

SetupFiles ==
    {SetupMissing,
     [exists |-> TRUE, readable |-> FALSE, columns |-> FALSE, rows |-> <<>>]}
    \cup {[exists |-> TRUE, readable |-> TRUE, columns |-> c, rows |-> rows] :
            c \in BOOLEAN, rows \in SeqsUpTo(SetupRows, MaxSetupRows)}

tableCodes ==
    Table(<<rowOver, Row(Purchase, Num(1000, 0), Num(15, 0),
                         Txt(<<"m", "i", "r">>)),
            rowUnknown>>)

\* Every shape of setup.xlsx, and one file whose rows use a known code, a
\* code in lower case and an unknown code.
InitSetup ==
    \E e \in Entries, setup \in SetupFiles :
      Start(e,
            (IF setup.exists
             THEN <<DirEntry(SetupName, ReadableAs(tableClean, TRUE))>>
             ELSE <<>>)
            \o <<DirEntry(Name("a", 0, "xlsx"), ReadableAs(tableCodes, TRUE))>>,
            setup)

\* What a reader can give: the table, or the same bytes decoded into text
\* in which no TYPE cell is the purchase marker, or an exception.
tableGarbled ==
    Table(<<Row("?OKY?KA", Num(1000, 0), Num(15, 0), Txt(MIR))>>)

Outcomes(df) ==
    {[st |-> "ok", df |-> df],
     [st |-> "UnicodeDecodeError", df |-> df],
     [st |-> "Error", df |-> df]}

ReadNames ==
    {Name("a", 0, "csv"), Name("a", 0, "dsv"), Name("a", 0, "dsvp"),
     Name("a", 0, "xlsx"), Name("a", 0, "xls")}

\* One file, every combination of what the readers give it.
InitRead ==
    \E e \in Entries, name \in ReadNames,
       u \in Outcomes(tableDisc), w \in Outcomes(tableGarbled),
       d \in Outcomes(tableUnder), x \in Outcomes(tableClean),
       g \in {"KOI8-R", "None"} :
      \* chardet naming no encoding makes pd.read_csv decode as UTF-8 again
      /\ g = "None" => d.st = "UnicodeDecodeError"
      /\ Start(e,
               <<DirEntry(name, [utf8 |-> u, cp1251 |-> w, detected |-> d,
                                 excel |-> x, guess |-> g, out_ok |-> TRUE]),
                 DirEntry(Name("b", 0, "csv"), ReadableAs(tableUnder, TRUE))>>,
               SetupMissing)

Init == InitFiles \/ InitDir \/ InitRows \/ InitSetup \/ InitRead

Spec == Init /\ [][Next]_vars

-----------------------------------------------------------------------------
(* Properties *)

Exited == pc \in {"return", "return_nofiles"}

Abs(n) == IF n < 0 THEN -n ELSE n

\* y is x rounded to 2 decimal places: y has at most 2 places and lies
\* within half a hundredth of x (NaN for NaN).
Nearest2(y, x) ==
    IF x.nan \/ y.nan THEN x.nan /\ y.nan
    ELSE /\ y.e <= 2
         /\ LET d == Sub(y, x)
            IN  IF d.e >= 3 THEN Abs(d.n) <= 5 * Pow10(d.e - 3)
                ELSE d.n = 0

\* rate(code): the entry of the table for the trimmed, upper-cased code,
\* else its DEFAULT entry.
RateFor(cell) ==
    LET key == StrCell(upper(strip(str(cell))))
    IN  IF key \in DOMAIN commission_rates THEN commission_rates[key]
        ELSE commission_rates[StrCell(DEFAULT)]

\* The calls of process_file that computed the added columns.
Computed == {k \in 1..Len(history) : history[k].status \in {"ok", "write"}}

ScenarioA ==
    Row(Purchase, Num(1000, 0), Num(142, 1), Txt(<<"m", "i", "r">>))

FeeAndDelta(h) ==
    \A k \in 1..Len(h.read) :
      LET raw == h.read[k]
          out == h.rows[k]
      IN  raw.TYPE = Purchase =>
            /\ Nearest2(out.calc, Mul(convert_amount(raw.AMOUNT).f,
                                      RateFor(raw.PMT_SYSTEM_CODE).f))
            /\ Nearest2(out.diff, Sub(convert_amount(raw.COMMISSION).f,
                                      out.calc))
            /\ (raw = ScenarioA /\ RateFor(Txt(MIR)) = Num(142, 4))
                 => out.calc = Dec(142, 1) /\ out.diff = Zero

\* C1: for every purchase row the computed fee is amount * rate(code)
\* rounded to 2 places, the code trimmed and upper-cased before the lookup,
\* and the delta is recorded fee - computed fee rounded to 2 places; with
\* MIR at 0.0142, amount 1000, fee 14.20 and code 'mir' the fee is 14.20 and
\* the delta 0.00.
C1_FeeAndDelta == \A k \in Computed : FeeAndDelta(history[k])

\* C1 for run_calc_commission_BRS.py alone.
C1_FeeAndDelta_commission == entry = "commission" => C1_FeeAndDelta

C1_Witness ==
    /\ entry = "commission"
    /\ \E k \in Computed :
         /\ history[k].read = <<ScenarioA>>
         /\ history[k].rows[1].calc = Dec(142, 1)

\* The calls of process_file whose reader gave a table with every required
\* column.
Accepted == {k \in 1..Len(history) : history[k].status \notin {"read", "columns"}}

C2_NonPurchaseZero_computed ==
    /\ \A k \in Computed :
         \A j \in 1..Len(history[k].read) :
           history[k].read[j].TYPE # Purchase =>
             /\ history[k].rows[j].calc = Zero
             /\ history[k].rows[j].diff = Zero
    /\ \A j \in 1..Len(results_df) : results_df[j].TYPE = Purchase

\* A report row without the time column SaveResults adds.
WithoutTime(row) == [c \in DOMAIN row \ {"time"} |-> row[c]]

Untimed(rows) == [k \in 1..Len(rows) |-> WithoutTime(rows[k])]

\* The rows of one call's table whose delta is not zero, in table order,
\* each with the name of its file.
FileBlock(h) ==
    LET picked == SelectSeq(h.rows, LAMBDA r : r.diff # Zero)
    IN  [k \in 1..Len(picked) |-> with_column(picked[k], "file", h.file.name)]

RECURSIVE Blocks(_)
Blocks(hs) ==
    IF hs = <<>> THEN <<>>
    ELSE Blocks(SubSeq(hs, 1, Len(hs) - 1)) \o FileBlock(hs[Len(hs)])

\* C3: after any number of files, the accumulated report holds exactly the
\* rows whose delta is not zero: the blocks of the files in processing
\* order, each block in the row order of its file; so its length is the sum
\* of the per-file counts, no row with delta 0 is in it and no row with
\* delta # 0 of a processed file is missing.  The report file, when
\* written, holds the same rows.
C3_ReportIsTheDiscrepancies ==
    /\ Untimed(results_df) = Blocks(history)
    /\ \A k \in 1..Len(results_df) : results_df[k].diff # Zero
    /\ \A k \in 1..Len(history) :
         history[k].status = "ok" =>
           \A j \in 1..Len(history[k].rows) :
             history[k].rows[j].diff # Zero =>
               \E m \in 1..Len(results_df) :
                 WithoutTime(results_df[m]) =
                   with_column(history[k].rows[j], "file", history[k].file.name)
    /\ results_xlsx.st = "written" => results_xlsx.rows = results_df

\* Two files processed, the first giving two discrepancies around a row
\* with delta 0, the second giving one negative delta.
C3_Witness ==
    /\ pc = "return"
    /\ Len(history) = 2
    /\ Len(history[1].rows) = 3
    /\ history[1].rows[2].diff = Zero
    /\ Len(results_df) = 3
    /\ results_df[1].file = history[1].file.name
    /\ results_df[3].file = history[2].file.name
    /\ results_df[3].diff.n < 0

\* C4: whenever process_file fails at any step (read, columns, conversion,
\* computation, writing the annotated output) it returns the collection it
\* was given.
C4_FailureReturnsGiven ==
    \A k \in 1..Len(history) :
      history[k].status # "ok" => history[k].returned = history[k].given

\* Whether a cell can be normalized to a number.
Normalizable(cell) == ~convert_amount(cell).raised

BadRow(row) == ~Normalizable(row.AMOUNT) \/ ~Normalizable(row.COMMISSION)

\* C5: a row whose amount or recorded fee cannot be normalized does not
\* discard its file: that row gets computed fee 0, every row is computed,
\* the annotated output is written and the discrepancies of the other rows
\* are contributed.
C5_BadRowKeepsFile ==
    \A k \in Accepted :
      LET h == history[k]
      IN  (h.file.file.out_ok /\ \E j \in 1..Len(h.read) : BadRow(h.read[j]))
            => /\ h.written
               /\ Len(h.rows) = Len(h.read)
               /\ \A j \in 1..Len(h.read) :
                    BadRow(h.read[j]) => h.rows[j].calc = Zero
               /\ \A j \in 1..Len(h.read) :
                    (~BadRow(h.read[j]) /\ h.rows[j].diff # Zero)
                      => \E m \in 1..Len(h.returned) :
                           /\ h.returned[m].file = h.file.name
                           /\ h.returned[m].diff = h.rows[j].diff

\* C6: a report file exists when the run ends if and only if the run found
\* a discrepancy, whatever was in the directory before, and it is never a
\* file without rows.
C6_ReportIffDiscrepancy ==
    Exited =>
      /\ results_xlsx.st # "absent" <=> results_df # <<>>
      /\ results_xlsx.st # "absent" => results_xlsx.rows # <<>>

\* The files main goes on with as if the others were not there: those
\* whose call did not end at the read or at the check of the columns.
Kept(hs) ==
    LET kept == SelectSeq(hs, LAMBDA h : h.status \notin {"read", "columns"})
    IN  [k \in 1..Len(kept) |-> kept[k].file]

\* The report rows and the annotated outputs a run over files leaves.
RECURSIVE RunOver(_, _, _, _, _)
RunOver(e, files, rates, res, dsk) ==
    IF files = <<>> THEN [results_df |-> res, disk |-> dsk]
    ELSE LET r == process_file(e, Head(files), res, rates)
         IN  RunOver(e, Tail(files), rates, r.results_df,
                     IF r.written
                     THEN setitem(dsk, new_path(Head(files)),
                                  [rows |-> r.rows,
                                   source |-> Head(files).name])
                     ELSE dsk)

\* Every discovered file so far attempted once, in discovery order.
AttemptedInOrder ==
    /\ pc \in {"for", "return"} => Len(history) = idx - 1
    /\ Len(history) <= Len(processed_files)
    /\ \A k \in 1..Len(history) : history[k].file = processed_files[k]
    /\ Exited => Len(history) = Len(processed_files)

\* A file that is unreadable or lacks a column leaves no trace: the call
\* returns what it was given and writes nothing, and the report rows and
\* the annotated outputs are those of a run over the other files alone.
SkippedLeaveNoTrace ==
    /\ \A k \in 1..Len(history) :
         history[k].status \in {"read", "columns"} =>
           /\ history[k].returned = history[k].given
           /\ ~history[k].written
    /\ LET alone == RunOver(entry, Kept(history), commission_rates,
                            <<>>, EmptyDict)
       IN  /\ Untimed(results_df) = alone.results_df
           /\ disk = alone.disk

\* C7 as stated: for every discovered file list, the empty one included,
\* main attempts every file once, in order, and ends only after the
\* aggregation step.
C7_AlwaysAggregates ==
    /\ AttemptedInOrder
    /\ SkippedLeaveNoTrace
    /\ Exited => pc = "return"

\* C7: for every discovered list that is not empty and every pattern of
\* unreadable files and files lacking a column, main attempts every
\* discovered file exactly once, in discovery order, no call ends the loop
\* early, and main ends only after the aggregation step; the files after a
\* failed one are handled as if the failed one had not been there.  (With
\* no file discovered main ends before the aggregation step.)
C7_BadFileNeverAborts ==
    /\ AttemptedInOrder
    /\ SkippedLeaveNoTrace
    /\ pc = "for" => idx \in 1..(Len(processed_files) + 1)
    /\ (Exited /\ processed_files # <<>>) => pc = "return"

\* A run that ended with an unreadable file before a file with a
\* discrepancy, the report holding the rows of the second file alone.
C7_Witness ==
    /\ pc = "return"
    /\ Len(history) = 2
    /\ history[1].status = "read"
    /\ history[2].status = "ok"
    /\ history[2].given = <<>>
    /\ results_xlsx.st = "written"
    /\ Len(results_df) >= 1

\* Card-network codes looked up: in the built-in table, in lower case, in
\* no table, and an empty cell.
LookupCodes ==
    {Txt(MIR), Txt(AMEX), Txt(JCB), Txt(<<"m", "i", "r">>), Txt(DEFAULT),
     FloatCell(NaN)}

\* A row of setup.xlsx whose rate is not a number.
RowFails(row) == float(row.rate).raised

\* The table each script has built in.
BuiltIn ==
    IF entry = "commission" THEN default_rates ELSE comission_fallback_rates

\* C8: whatever setup.xlsx is, the loaded table has a DEFAULT entry, the
\* lookup gives for every code the entry of the code, else the DEFAULT
\* entry, without failing, and when a row does not parse the table is the
\* built-in one.
C8_RateTableTotal ==
    pc # "load" =>
      /\ StrCell(DEFAULT) \in DOMAIN commission_rates
      /\ \A c \in LookupCodes :
           LET r == get_rate(commission_rates, c)
           IN  /\ ~r.raised
               /\ r.v = IF c \in DOMAIN commission_rates
                        THEN commission_rates[c]
                        ELSE commission_rates[StrCell(DEFAULT)]
      /\ (setup_xlsx.exists
          /\ \E k \in 1..Len(setup_xlsx.rows) : RowFails(setup_xlsx.rows[k]))
           => commission_rates = BuiltIn

\* C8 for run_calc_commission_BRS.py alone.
C8_RateTableTotal_commission == entry = "commission" => C8_RateTableTotal

IsDelimited(name) == name.ext \in {"csv", "dsv", "dsvp"}

\* What the three decoders give for a file, in the order of the claim.
Decoders(f) ==
    <<[encoding |-> "utf-8", out |-> f.utf8],
      [encoding |-> "windows-1251", out |-> f.cp1251],
      [encoding |-> f.guess, out |-> f.detected]>>

DecodedInOrder(h) ==
    LET ds == Decoders(h.file.file)
        n == Len(h.tried)
    IN  /\ n \in 1..3
        /\ \A j \in 1..n : h.tried[j] = ds[j].encoding
        /\ \A j \in 1..(n - 1) : ds[j].out.st = "UnicodeDecodeError"
        /\ n < 3 => ds[n].out.st # "UnicodeDecodeError"
        /\ IF ds[n].out.st = "ok"
           THEN /\ h.status # "read"
                /\ h.read = ds[n].out.df.rows
           ELSE /\ h.status = "read"
                /\ h.returned = h.given
                /\ ~h.written

\* C9: a delimited-text file is decoded as UTF-8, then windows-1251, then
\* the guessed encoding; a decoder is tried only after every earlier one
\* raised a decode error; the table is that of the first decoder that
\* succeeds; when none does the call fails for that file alone and the
\* loop goes on.
C9_DecoderOrder ==
    /\ \A k \in 1..Len(history) :
         IsDelimited(history[k].file.name) => DecodedInOrder(history[k])
    /\ Exited => Len(history) = Len(processed_files)

\* A file only the guessed encoding decodes, and the next file processed
\* after it.
C9_Witness ==
    /\ Len(history) = 2
    /\ IsDelimited(history[1].file.name)
    /\ history[1].tried = <<"utf-8", "windows-1251", "KOI8-R">>
    /\ history[1].status = "ok"
    /\ history[1].read = tableUnder.rows
    /\ history[2].status = "ok"

\* C10: the annotated outputs of distinct discovered files are distinct
\* files, none is overwritten by another's within the run, and none is a
\* discovered input.
C10_DistinctOutputs ==
    /\ \A k, j \in 1..Len(history) :
         (k # j /\ history[k].written /\ history[j].written)
           => new_path(history[k].file) # new_path(history[j].file)
    /\ \A k \in 1..Len(history) :
         history[k].written =>
           disk[new_path(history[k].file)].source = history[k].file.name
    /\ \A k, j \in 1..Len(processed_files) :
         new_path(processed_files[k]) # processed_files[j].name

\* The second part of C10 alone.
C10_OutputIsNoInput ==
    \A k, j \in 1..Len(processed_files) :
      new_path(processed_files[k]) # processed_files[j].name

=============================================================================
